---- MODULE Spec2Model ----
(***************************************************************************)
(* The gateway service (gateway/service.py): six HTTP handlers that        *)
(* orchestrate calls to the orders and products services.  A handler is a  *)
(* sequence of blocking RPC calls; handlers of concurrent requests         *)
(* interleave between calls.  The two backends are the shared state.       *)
(***************************************************************************)
EXTENDS Integers, Sequences, FiniteSets, TLC

VARIABLES
    catalog,    \* products service: product id -> product record
    orders,     \* orders service: sequence of orders, orders[i].id = i
    served,     \* requests accepted so far
    req         \* one record per worker: the request it is serving

vars == <<catalog, orders, req, served>>

-----------------------------------------------------------------------------
(* Bounds *)

MaxOrders == 2      \* orders the orders service will hold
MaxItems == 2       \* line items of one posted order
MaxRequests == 4    \* requests the gateway accepts in one run

(* Program constants *)

DefaultPage == 1

\* per_page defaulting to the default of page.
DefaultPerPage_as_page == DefaultPage

DefaultPerPage == 10

image_root == "http://img"

Reqs == {"r1", "r2"}
ProductIds == {"A", "B"}
Titles == {"t1", "t2"}
OrderIds == 1..(MaxOrders + 1)
PageValues == {"1", "2", "x"}
PerPageValues == {"1", "10", "x"}

-----------------------------------------------------------------------------
(* Data *)

Product(id, title) ==
    [id |-> id, title |-> title, passenger_capacity |-> 101,
     maximum_speed |-> 5, in_stock |-> 10]

Products == {Product(id, t) : id \in ProductIds, t \in Titles}

LineItems == [product_id : ProductIds, price : {"9.99"}, quantity : {1}]

RECURSIVE SeqsUpTo(_, _)
SeqsUpTo(S, n) ==
    IF n = 0 THEN {<<>>}
    ELSE LET shorter == SeqsUpTo(S, n - 1)
         IN  shorter \cup {Append(s, x) : s \in {t \in shorter : Len(t) = n - 1}, x \in S}

OrderDetails == SeqsUpTo(LineItems, MaxItems)

\* Request bodies: text that is not JSON, JSON that violates the schema,
\* and JSON that the schema accepts.
ProductBodies ==
    {[kind |-> "malformed"], [kind |-> "invalid"]}
        \cup {[kind |-> "valid", data |-> p] : p \in Products}

OrderBodies ==
    {[kind |-> "malformed"], [kind |-> "invalid"]}
        \cup {[kind |-> "valid", data |-> [order_details |-> d]] : d \in OrderDetails}

\* Query strings of GET /orders: each parameter is absent or a string.
Absent == [given |-> FALSE]
Given(s) == [given |-> TRUE, value |-> s]
QueryArgs ==
    [page : {Absent} \cup {Given(s) : s \in PageValues},
     per_page : {Absent} \cup {Given(s) : s \in PerPageValues}]

-----------------------------------------------------------------------------
(* Results and exceptions *)

Return(v) == [ok |-> TRUE, val |-> v]
Raise(type, detail) == [ok |-> FALSE, type |-> type, detail |-> detail]

-----------------------------------------------------------------------------
(* The products service *)

products_get(product_id) ==
    IF product_id \in DOMAIN catalog
    THEN Return(catalog[product_id])
    ELSE Raise("ProductNotFound", product_id)

products_delete(product_id) ==
    IF product_id \in DOMAIN catalog
    THEN Return("ack")
    ELSE Raise("ProductNotFound", product_id)

catalog_after_delete(product_id) ==
    [p \in DOMAIN catalog \ {product_id} |-> catalog[p]]

catalog_after_create(data) ==
    [p \in DOMAIN catalog \cup {data.id} |-> IF p = data.id THEN data ELSE catalog[p]]

(* The orders service *)

References(order, product_id) ==
    \E i \in 1..Len(order.order_details) : order.order_details[i].product_id = product_id

orders_get_order(order_id) ==
    IF order_id \in 1..Len(orders)
    THEN Return(orders[order_id])
    ELSE Raise("OrderNotFound", order_id)

orders_get_order_by_product_id(product_id) ==
    LET hits == {i \in 1..Len(orders) : References(orders[i], product_id)}
    IN  IF hits # {}
        THEN Return(orders[CHOOSE i \in hits : \A j \in hits : i <= j])
        ELSE Raise("OrderNotFound", product_id)

orders_create_order(order_details) ==
    Return([id |-> Len(orders) + 1])

orders_after_create(order_details) ==
    Append(orders, [id |-> Len(orders) + 1, order_details |-> order_details])

orders_list_orders(page, per_page) ==
    LET first == (page - 1) * per_page + 1
        last == IF page * per_page < Len(orders) THEN page * per_page ELSE Len(orders)
    IN  Return(IF first >= 1 /\ first <= last THEN SubSeq(orders, first, last) ELSE <<>>)

orders_get_total_orders == Return(Len(orders))

-----------------------------------------------------------------------------
(* The http entrypoint: what a handler's exception becomes *)

expected_exceptions(handler) ==
    CASE handler = "get_product"    -> {"ProductNotFound"}
      [] handler = "delete_product" -> {"ProductNotFound", "BadRequest", "UnavailableProduct"}
      [] handler = "create_product" -> {"ValidationError", "BadRequest"}
      [] handler = "get_order"      -> {"OrderNotFound"}
      [] handler = "create_order"   -> {"ValidationError", "ProductNotFound", "BadRequest"}
      [] handler = "list_orders"    -> {"OrderNotFound"}

mapped_errors(type) ==
    CASE type = "BadRequest"         -> "BadRequest"
      [] type = "ValidationError"    -> "BadRequest"
      [] type = "ProductNotFound"    -> "NotFound"
      [] type = "OrderNotFound"      -> "NotFound"
      [] type = "UnavailableProduct" -> "Conflict"

response_from_exception(handler, exc) ==
    IF exc.type \in expected_exceptions(handler)
    THEN [status |-> mapped_errors(exc.type), exc |-> exc.type, detail |-> exc.detail]
    ELSE [status |-> "InternalError", exc |-> "UNEXPECTED_ERROR"]

Response(body) == [status |-> "OK", body |-> body]

-----------------------------------------------------------------------------
(* Schemas *)

\* schema.loads: ValueError for text that is not JSON, ValidationError for
\* JSON the schema rejects, the data otherwise.
schema_loads(body) ==
    CASE body.kind = "malformed" -> Raise("ValueError", "Expecting value")
      [] body.kind = "invalid"   -> Raise("ValidationError", "Missing data for required field.")
      [] body.kind = "valid"     -> Return(body.data)

\* CreateOrderSchema().dump: the declared fields of each line item.
CreateOrderSchema_dump(order_data) ==
    [order_details |->
        [i \in 1..Len(order_data.order_details) |->
            [product_id |-> order_data.order_details[i].product_id,
             price |-> order_data.order_details[i].price,
             quantity |-> order_data.order_details[i].quantity]]]

\* ProductSchema().dumps: the declared fields of a product.
ProductSchema_dumps(product) ==
    [id |-> product.id, title |-> product.title,
     passenger_capacity |-> product.passenger_capacity,
     maximum_speed |-> product.maximum_speed, in_stock |-> product.in_stock]

\* GetOrderSchema().dumps: the declared fields of an enriched order.
GetOrderSchema_dumps(order) ==
    [id |-> order.id,
     order_details |->
        [i \in 1..Len(order.order_details) |->
            [product_id |-> order.order_details[i].product_id,
             price |-> order.order_details[i].price,
             quantity |-> order.order_details[i].quantity,
             product |-> order.order_details[i].product,
             image |-> order.order_details[i].image]]]

\* int() of a query string.
int(s) ==
    CASE s = "1"  -> Return(1)
      [] s = "2"  -> Return(2)
      [] s = "10" -> Return(10)
      [] OTHER    -> Raise("ValueError", "invalid literal for int()")

\* int(request.args.get(name, default))
arg_int(arg, default) == IF arg.given THEN int(arg.value) ELSE Return(default)

\* The format arguments the wrong way round.
image_url_swapped(product_id) == product_id \o "/" \o image_root \o ".jpg"

\* '{}/{}.jpg'.format(image_root, product_id)
image_url(product_id) == image_root \o "/" \o product_id \o ".jpg"

\* The line items of each order visited from the last to the first.
RECURSIVE Positions_reversed(_, _)
Positions_reversed(work, o) ==
    IF o > Len(work) THEN <<>>
    ELSE [i \in 1..Len(work[o].order_details) |->
                <<o, Len(work[o].order_details) + 1 - i>>]
            \o Positions_reversed(work, o + 1)

\* The line items of a page of orders, in the order the loops visit them.
RECURSIVE Positions(_, _)
Positions(work, o) ==
    IF o > Len(work) THEN <<>>
    ELSE [i \in 1..Len(work[o].order_details) |-> <<o, i>>] \o Positions(work, o + 1)

-----------------------------------------------------------------------------
(* Workers *)

Idle ==
    [handler |-> "idle", pc |-> "idle", calls |-> <<>>, outcome |-> [status |-> "none"]]

Call(op, arg, reply) == [op |-> op, arg |-> arg, reply |-> reply]

\* The request ends: its outcome is fixed and no further call is made.
Done(handler, input, calls, outcome) ==
    [handler |-> handler, input |-> input, pc |-> "done", calls |-> calls,
     outcome |-> outcome]

Init ==
    /\ catalog = <<>>
    /\ orders = <<>>
    /\ req = [r \in Reqs |-> Idle]
    /\ served = 0

\* get_product that creates a placeholder when the product is not found.
get_product_or_create(r, product_id) ==
    /\ req[r].pc = "idle"
    /\ served < MaxRequests
    /\ served' = served + 1
    /\ LET reply == products_get(product_id)
           placeholder == Product(product_id, "t1")
           calls == <<Call("products.get", product_id, reply)>>
       IN  IF reply.ok
           THEN /\ req' = [req EXCEPT ![r] =
                    Done("get_product", product_id, calls,
                         Response(ProductSchema_dumps(reply.val)))]
                /\ UNCHANGED catalog
           ELSE /\ req' = [req EXCEPT ![r] =
                    Done("get_product", product_id,
                         Append(calls, Call("products.create", placeholder,
                                            Return([id |-> product_id]))),
                         Response(ProductSchema_dumps(placeholder)))]
                /\ catalog' = catalog_after_create(placeholder)
    /\ UNCHANGED orders

\* GET /products/<product_id>
get_product(r, product_id) ==
    /\ req[r].pc = "idle"
    /\ served < MaxRequests
    /\ served' = served + 1
    /\ LET reply == products_get(product_id)
           calls == <<Call("products.get", product_id, reply)>>
       IN  req' = [req EXCEPT ![r] =
                Done("get_product", product_id, calls,
                     IF reply.ok THEN Response(ProductSchema_dumps(reply.val))
                     ELSE response_from_exception("get_product", reply))]
    /\ UNCHANGED <<catalog, orders>>

\* delete_product without the in-use refusal: the delete goes ahead anyway.
delete_product_unguarded(r, product_id) ==
    /\ req[r].pc = "idle"
    /\ served < MaxRequests
    /\ served' = served + 1
    /\ LET reply == orders_get_order_by_product_id(product_id)
           calls == <<Call("orders.get_order_by_product_id", product_id, reply)>>
       IN  req' = [req EXCEPT ![r] =
                [handler |-> "delete_product", input |-> product_id,
                 pc |-> "delete", calls |-> calls, outcome |-> [status |-> "none"]]]
    /\ UNCHANGED <<catalog, orders>>

\* DELETE /products/<product_id>: is the product used by an order?
delete_product(r, product_id) ==
    /\ req[r].pc = "idle"
    /\ served < MaxRequests
    /\ served' = served + 1
    /\ LET reply == orders_get_order_by_product_id(product_id)
           calls == <<Call("orders.get_order_by_product_id", product_id, reply)>>
       IN  req' = [req EXCEPT ![r] =
                IF reply.ok
                THEN Done("delete_product", product_id, calls,
                          response_from_exception("delete_product",
                              Raise("UnavailableProduct", product_id)))
                ELSE [handler |-> "delete_product", input |-> product_id,
                      pc |-> "delete", calls |-> calls, outcome |-> [status |-> "none"]]]
    /\ UNCHANGED <<catalog, orders>>

\* delete_product that swallows ProductNotFound from the delete.
delete_product_delete_swallow(r) ==
    /\ UNCHANGED served
    /\ req[r].pc = "delete"
    /\ LET product_id == req[r].input
           reply == products_delete(product_id)
           calls == Append(req[r].calls, Call("products.delete", product_id, reply))
       IN  /\ req' = [req EXCEPT ![r] =
                Done("delete_product", product_id, calls,
                     Response([message |-> "Product deleted successfully"]))]
           /\ catalog' = IF reply.ok THEN catalog_after_delete(product_id) ELSE catalog
    /\ UNCHANGED orders

\* DELETE /products/<product_id>: no order uses it, delete it.
delete_product_delete(r) ==
    /\ UNCHANGED served
    /\ req[r].pc = "delete"
    /\ LET product_id == req[r].input
           reply == products_delete(product_id)
           calls == Append(req[r].calls, Call("products.delete", product_id, reply))
       IN  /\ req' = [req EXCEPT ![r] =
                Done("delete_product", product_id, calls,
                     IF reply.ok
                     THEN Response([message |-> "Product deleted successfully"])
                     ELSE response_from_exception("delete_product",
                              Raise("ProductNotFound", product_id)))]
           /\ catalog' = IF reply.ok THEN catalog_after_delete(product_id) ELSE catalog
    /\ UNCHANGED orders

\* create_product that answers without sending the product to the service.
create_product_unsaved(r, body) ==
    /\ req[r].pc = "idle"
    /\ served < MaxRequests
    /\ served' = served + 1
    /\ LET loaded == schema_loads(body)
       IN  req' = [req EXCEPT ![r] =
                IF ~loaded.ok
                THEN Done("create_product", body, <<>>,
                          response_from_exception("create_product",
                              IF loaded.type = "ValueError"
                              THEN Raise("BadRequest", "Invalid json")
                              ELSE loaded))
                ELSE Done("create_product", body, <<>>,
                          Response([id |-> loaded.val.id]))]
    /\ UNCHANGED <<catalog, orders>>

\* POST /products
create_product(r, body) ==
    /\ req[r].pc = "idle"
    /\ served < MaxRequests
    /\ served' = served + 1
    /\ LET loaded == schema_loads(body)
       IN  IF ~loaded.ok
           THEN /\ req' = [req EXCEPT ![r] =
                    Done("create_product", body, <<>>,
                         response_from_exception("create_product",
                             IF loaded.type = "ValueError"
                             THEN Raise("BadRequest", "Invalid json")
                             ELSE loaded))]
                /\ UNCHANGED catalog
           ELSE LET product_data == loaded.val
                    reply == Return([id |-> product_data.id])
                    calls == <<Call("products.create", product_data, reply)>>
                IN  /\ req' = [req EXCEPT ![r] =
                        Done("create_product", body, calls,
                             Response([id |-> product_data.id]))]
                    /\ catalog' = catalog_after_create(product_data)
    /\ UNCHANGED orders

\* create_order that lets the ValueError of invalid json escape as it is.
create_order_unconverted(r, body) ==
    /\ req[r].pc = "idle"
    /\ served < MaxRequests
    /\ served' = served + 1
    /\ LET loaded == schema_loads(body)
       IN  req' = [req EXCEPT ![r] =
                IF ~loaded.ok
                THEN Done("create_order", body, <<>>,
                          response_from_exception("create_order", loaded))
                ELSE [handler |-> "create_order", input |-> body,
                      pc |-> IF Len(loaded.val.order_details) = 0 THEN "create" ELSE "check",
                      idx |-> 1, order_data |-> loaded.val,
                      calls |-> <<>>, outcome |-> [status |-> "none"]]]
    /\ UNCHANGED <<catalog, orders>>

\* create_order that refuses an order without line items.
create_order_nonempty(r, body) ==
    /\ req[r].pc = "idle"
    /\ served < MaxRequests
    /\ served' = served + 1
    /\ LET loaded == schema_loads(body)
       IN  req' = [req EXCEPT ![r] =
                IF ~loaded.ok
                THEN Done("create_order", body, <<>>,
                          response_from_exception("create_order",
                              IF loaded.type = "ValueError"
                              THEN Raise("BadRequest", "Invalid json")
                              ELSE loaded))
                ELSE IF Len(loaded.val.order_details) = 0
                THEN Done("create_order", body, <<>>,
                          response_from_exception("create_order",
                              Raise("ValidationError", "Shorter than minimum length 1.")))
                ELSE [handler |-> "create_order", input |-> body,
                      pc |-> "check",
                      idx |-> 1, order_data |-> loaded.val,
                      calls |-> <<>>, outcome |-> [status |-> "none"]]]
    /\ UNCHANGED <<catalog, orders>>

\* POST /orders: load the body through the schema.
create_order(r, body) ==
    /\ req[r].pc = "idle"
    /\ served < MaxRequests
    /\ served' = served + 1
    /\ LET loaded == schema_loads(body)
       IN  req' = [req EXCEPT ![r] =
                IF ~loaded.ok
                THEN Done("create_order", body, <<>>,
                          response_from_exception("create_order",
                              IF loaded.type = "ValueError"
                              THEN Raise("BadRequest", "Invalid json")
                              ELSE loaded))
                ELSE [handler |-> "create_order", input |-> body,
                      pc |-> IF Len(loaded.val.order_details) = 0 THEN "create" ELSE "check",
                      idx |-> 1, order_data |-> loaded.val,
                      calls |-> <<>>, outcome |-> [status |-> "none"]]]
    /\ UNCHANGED <<catalog, orders>>

\* _create_order whose check passes over a product that is not found.
create_order_check_swallow(r) ==
    /\ UNCHANGED served
    /\ req[r].pc = "check"
    /\ LET item == req[r].order_data.order_details[req[r].idx]
           reply == products_get(item.product_id)
           calls == Append(req[r].calls, Call("products.get", item.product_id, reply))
       IN  req' = [req EXCEPT ![r] =
                [req[r] EXCEPT
                    !.calls = calls,
                    !.idx = @ + 1,
                    !.pc = IF req[r].idx = Len(req[r].order_data.order_details)
                           THEN "create" ELSE "check"]]
    /\ UNCHANGED <<catalog, orders>>

\* _create_order whose error names the first line item, not the one checked.
create_order_check_names_first(r) ==
    /\ UNCHANGED served
    /\ req[r].pc = "check"
    /\ LET item == req[r].order_data.order_details[req[r].idx]
           reply == products_get(item.product_id)
           calls == Append(req[r].calls, Call("products.get", item.product_id, reply))
       IN  req' = [req EXCEPT ![r] =
                IF ~reply.ok
                THEN Done("create_order", req[r].input, calls,
                          response_from_exception("create_order",
                              Raise("ProductNotFound",
                                    req[r].order_data.order_details[1].product_id)))
                ELSE [req[r] EXCEPT
                        !.calls = calls,
                        !.idx = @ + 1,
                        !.pc = IF req[r].idx = Len(req[r].order_data.order_details)
                               THEN "create" ELSE "check"]]
    /\ UNCHANGED <<catalog, orders>>

\* _create_order: check the next line item's product id.
create_order_check(r) ==
    /\ UNCHANGED served
    /\ req[r].pc = "check"
    /\ LET item == req[r].order_data.order_details[req[r].idx]
           reply == products_get(item.product_id)
           calls == Append(req[r].calls, Call("products.get", item.product_id, reply))
       IN  req' = [req EXCEPT ![r] =
                IF ~reply.ok
                THEN Done("create_order", req[r].input, calls,
                          response_from_exception("create_order",
                              Raise("ProductNotFound", item.product_id)))
                ELSE [req[r] EXCEPT
                        !.calls = calls,
                        !.idx = @ + 1,
                        !.pc = IF req[r].idx = Len(req[r].order_data.order_details)
                               THEN "create" ELSE "check"]]
    /\ UNCHANGED <<catalog, orders>>

\* _create_order: every product id is valid, create the order.
create_order_create(r) ==
    /\ UNCHANGED served
    /\ req[r].pc = "create"
    /\ Len(orders) < MaxOrders
    /\ LET serialized_data == CreateOrderSchema_dump(req[r].order_data)
           result == orders_create_order(serialized_data.order_details)
           calls == Append(req[r].calls,
                        Call("orders.create_order", serialized_data.order_details, result))
       IN  /\ req' = [req EXCEPT ![r] =
                Done("create_order", req[r].input, calls,
                     Response([id |-> result.val.id]))]
           /\ orders' = orders_after_create(serialized_data.order_details)
    /\ UNCHANGED catalog

\* GET /orders/<order_id>: fetch the order.
get_order(r, order_id) ==
    /\ req[r].pc = "idle"
    /\ served < MaxRequests
    /\ served' = served + 1
    /\ LET reply == orders_get_order(order_id)
           calls == <<Call("orders.get_order", order_id, reply)>>
       IN  req' = [req EXCEPT ![r] =
                IF ~reply.ok
                THEN Done("get_order", order_id, calls,
                          response_from_exception("get_order", reply))
                ELSE IF Len(reply.val.order_details) = 0
                THEN Done("get_order", order_id, calls,
                          Response(GetOrderSchema_dumps(reply.val)))
                ELSE [handler |-> "get_order", input |-> order_id, pc |-> "enrich",
                      idx |-> 1, order |-> reply.val,
                      calls |-> calls, outcome |-> [status |-> "none"]]]
    /\ UNCHANGED <<catalog, orders>>

\* _get_order that leaves a line item alone when its product is not found.
get_order_enrich_partial(r) ==
    /\ UNCHANGED served
    /\ req[r].pc = "enrich"
    /\ req[r].handler = "get_order"
    /\ LET i == req[r].idx
           item == req[r].order.order_details[i]
           product_id == item.product_id
           reply == products_get(product_id)
           calls == Append(req[r].calls, Call("products.get", product_id, reply))
           order == [req[r].order EXCEPT !.order_details[i] =
                        item @@ [product |-> IF reply.ok THEN reply.val ELSE [id |-> ""],
                                 image |-> image_url(product_id)]]
       IN  req' = [req EXCEPT ![r] =
                IF i = Len(order.order_details)
                THEN Done("get_order", req[r].input, calls,
                          Response(GetOrderSchema_dumps(order)))
                ELSE [req[r] EXCEPT !.calls = calls, !.idx = i + 1, !.order = order]]
    /\ UNCHANGED <<catalog, orders>>

\* _get_order with a product cache shared by the requests: a product that
\* another request in the service has fetched is not fetched again.
get_order_enrich_cached(r) ==
    /\ UNCHANGED served
    /\ req[r].pc = "enrich"
    /\ req[r].handler = "get_order"
    /\ LET i == req[r].idx
           item == req[r].order.order_details[i]
           product_id == item.product_id
           cached == {h \in (Reqs \ {r}) \X (1..(MaxItems + 1)) :
                        /\ h[2] <= Len(req[h[1]].calls)
                        /\ req[h[1]].calls[h[2]].op = "products.get"
                        /\ req[h[1]].calls[h[2]].arg = product_id
                        /\ req[h[1]].calls[h[2]].reply.ok}
           hit == CHOOSE h \in cached : TRUE
           reply == IF cached # {} THEN req[hit[1]].calls[hit[2]].reply
                    ELSE products_get(product_id)
           calls == IF cached # {} THEN req[r].calls
                    ELSE Append(req[r].calls, Call("products.get", product_id, reply))
           order == [req[r].order EXCEPT !.order_details[i] =
                        item @@ [product |-> reply.val, image |-> image_url(product_id)]]
       IN  req' = [req EXCEPT ![r] =
                IF ~reply.ok
                THEN Done("get_order", req[r].input, calls,
                          response_from_exception("get_order", reply))
                ELSE IF i = Len(order.order_details)
                THEN Done("get_order", req[r].input, calls,
                          Response(GetOrderSchema_dumps(order)))
                ELSE [req[r] EXCEPT !.calls = calls, !.idx = i + 1, !.order = order]]
    /\ UNCHANGED <<catalog, orders>>

\* _get_order: enhance the next line item with product and image details.
get_order_enrich(r) ==
    /\ UNCHANGED served
    /\ req[r].pc = "enrich"
    /\ req[r].handler = "get_order"
    /\ LET i == req[r].idx
           item == req[r].order.order_details[i]
           product_id == item.product_id
           reply == products_get(product_id)
           calls == Append(req[r].calls, Call("products.get", product_id, reply))
           order == [req[r].order EXCEPT !.order_details[i] =
                        item @@ [product |-> reply.val, image |-> image_url(product_id)]]
       IN  req' = [req EXCEPT ![r] =
                IF ~reply.ok
                THEN Done("get_order", req[r].input, calls,
                          response_from_exception("get_order", reply))
                ELSE IF i = Len(order.order_details)
                THEN Done("get_order", req[r].input, calls,
                          Response(GetOrderSchema_dumps(order)))
                ELSE [req[r] EXCEPT !.calls = calls, !.idx = i + 1, !.order = order]]
    /\ UNCHANGED <<catalog, orders>>

\* GET /orders: read the query string and fetch the page.
list_orders(r, args) ==
    /\ req[r].pc = "idle"
    /\ served < MaxRequests
    /\ served' = served + 1
    /\ LET page == arg_int(args.page, DefaultPage)
           per_page == arg_int(args.per_page, DefaultPerPage)
       IN  req' = [req EXCEPT ![r] =
                IF ~page.ok
                THEN Done("list_orders", args, <<>>,
                          response_from_exception("list_orders", page))
                ELSE IF ~per_page.ok
                THEN Done("list_orders", args, <<>>,
                          response_from_exception("list_orders", per_page))
                ELSE LET reply == orders_list_orders(page.val, per_page.val)
                     IN  [handler |-> "list_orders", input |-> args, pc |-> "total",
                          idx |-> 1, orders_response |-> reply.val,
                          calls |-> <<Call("orders.list_orders",
                                           [page |-> page.val, per_page |-> per_page.val],
                                           reply)>>,
                          outcome |-> [status |-> "none"]]]
    /\ UNCHANGED <<catalog, orders>>

\* The total taken from the length of the page.
list_orders_response_len(orders_response, total_orders) ==
    Response([orders |-> orders_response, total |-> Len(orders_response)])

\* The response of GET /orders.
list_orders_response(orders_response, total_orders) ==
    Response([orders |-> orders_response, total |-> total_orders])

\* GET /orders: fetch the total.
list_orders_total(r) ==
    /\ UNCHANGED served
    /\ req[r].pc = "total"
    /\ LET reply == orders_get_total_orders
           calls == Append(req[r].calls, Call("orders.get_total_orders", "", reply))
       IN  req' = [req EXCEPT ![r] =
                IF Positions(req[r].orders_response, 1) = <<>>
                THEN Done("list_orders", req[r].input, calls,
                          list_orders_response(req[r].orders_response, reply.val))
                ELSE [req[r] EXCEPT !.calls = calls, !.pc = "enrich"]
                        @@ [total_orders |-> reply.val]]
    /\ UNCHANGED <<catalog, orders>>

\* GET /orders: enhance the next line item of the page.
list_orders_enrich(r) ==
    /\ UNCHANGED served
    /\ req[r].pc = "enrich"
    /\ req[r].handler = "list_orders"
    /\ LET positions == Positions(req[r].orders_response, 1)
           o == positions[req[r].idx][1]
           i == positions[req[r].idx][2]
           item == req[r].orders_response[o].order_details[i]
           product_id == item.product_id
           reply == products_get(product_id)
           calls == Append(req[r].calls, Call("products.get", product_id, reply))
           orders_response == [req[r].orders_response EXCEPT ![o].order_details[i] =
                        item @@ [product |-> reply.val, image |-> image_url(product_id)]]
       IN  req' = [req EXCEPT ![r] =
                IF ~reply.ok
                THEN Done("list_orders", req[r].input, calls,
                          response_from_exception("list_orders", reply))
                ELSE IF req[r].idx = Len(positions)
                THEN Done("list_orders", req[r].input, calls,
                          list_orders_response(orders_response, req[r].total_orders))
                ELSE [req[r] EXCEPT !.calls = calls, !.idx = @ + 1,
                                    !.orders_response = orders_response]]
    /\ UNCHANGED <<catalog, orders>>

\* The worker answers and is free for the next request.
respond(r) ==
    /\ UNCHANGED served
    /\ req[r].pc = "done"
    /\ req' = [req EXCEPT ![r] = Idle]
    /\ UNCHANGED <<catalog, orders>>

Next ==
    \/ \E r \in Reqs, product_id \in ProductIds : get_product(r, product_id)
    \/ \E r \in Reqs, product_id \in ProductIds : delete_product(r, product_id)
    \/ \E r \in Reqs : delete_product_delete(r)
    \/ \E r \in Reqs, body \in ProductBodies : create_product(r, body)
    \/ \E r \in Reqs, body \in OrderBodies : create_order(r, body)
    \/ \E r \in Reqs : create_order_check(r)
    \/ \E r \in Reqs : create_order_create(r)
    \/ \E r \in Reqs, order_id \in OrderIds : get_order(r, order_id)
    \/ \E r \in Reqs : get_order_enrich(r)
    \/ \E r \in Reqs, args \in QueryArgs : list_orders(r, args)
    \/ \E r \in Reqs : list_orders_total(r)
    \/ \E r \in Reqs : list_orders_enrich(r)
    \/ \E r \in Reqs : respond(r)

Spec == Init /\ [][Next]_vars

-----------------------------------------------------------------------------
(* Reading a request's record *)

Calls(r) == req[r].calls

Made(r, op) == \E i \in 1..Len(Calls(r)) : Calls(r)[i].op = op

NotFoundReply(c, type) == ~c.reply.ok /\ c.reply.type = type

Ended(r) == req[r].pc = "done"

-----------------------------------------------------------------------------
(* POST /orders is all or nothing *)

\* C1: a POST /orders request in which products.get reported ProductNotFound
\* for a line item has ended with NotFound naming that product id and has
\* made no orders.create_order call; a request that did call create_order
\* had every one of its line items resolved first, in order.
C1_AllOrNothing ==
    \A r \in Reqs :
        req[r].handler = "create_order" =>
            /\ \A i \in 1..Len(Calls(r)) :
                    (Calls(r)[i].op = "products.get"
                        /\ NotFoundReply(Calls(r)[i], "ProductNotFound")) =>
                        /\ Ended(r)
                        /\ req[r].outcome.status = "NotFound"
                        /\ req[r].outcome.exc = "ProductNotFound"
                        /\ req[r].outcome.detail = Calls(r)[i].arg
                        /\ ~Made(r, "orders.create_order")
            /\ Made(r, "orders.create_order") =>
                    LET details == req[r].input.data.order_details
                    IN  /\ Len(Calls(r)) = Len(details) + 1
                        /\ \A i \in 1..Len(details) :
                                /\ Calls(r)[i].op = "products.get"
                                /\ Calls(r)[i].arg = details[i].product_id
                                /\ Calls(r)[i].reply.ok

\* A request for [A, B] where A exists and B does not was refused for B.
C1_Witness ==
    \E r \in Reqs :
        /\ req[r].handler = "create_order"
        /\ Ended(r)
        /\ Len(Calls(r)) = 2
        /\ Calls(r)[1].reply.ok
        /\ NotFoundReply(Calls(r)[2], "ProductNotFound")
        /\ req[r].outcome.status = "NotFound"
        /\ Len(orders) = 0

-----------------------------------------------------------------------------
(* DELETE /products/<id> *)

\* C2: a DELETE request whose get_order_by_product_id call returned an order
\* has ended with Conflict (UnavailableProduct naming the product) and has
\* made no products.delete call.
C2_DeletionRefused ==
    \A r \in Reqs :
        (req[r].handler = "delete_product" /\ Calls(r)[1].reply.ok) =>
            /\ Ended(r)
            /\ req[r].outcome.status = "Conflict"
            /\ req[r].outcome.exc = "UnavailableProduct"
            /\ req[r].outcome.detail = req[r].input
            /\ ~Made(r, "products.delete")
            /\ Len(Calls(r)) = 1

\* A DELETE was refused while the product is in the catalog and in an order.
C2_Witness ==
    \E r \in Reqs :
        /\ req[r].handler = "delete_product"
        /\ Calls(r)[1].reply.ok
        /\ Ended(r)
        /\ req[r].input \in DOMAIN catalog
        /\ \E i \in 1..Len(orders) : References(orders[i], req[r].input)

\* C3: a DELETE request whose get_order_by_product_id call reported
\* OrderNotFound calls products.delete for the same id next; once it has ended,
\* its outcome is NotFound naming the id if that call reported ProductNotFound
\* and the acknowledgement "Product deleted successfully" otherwise.
C3_DeletionProceeds ==
    \A r \in Reqs :
        (req[r].handler = "delete_product"
            /\ NotFoundReply(Calls(r)[1], "OrderNotFound")) =>
            /\ ~Ended(r) => (req[r].pc = "delete" /\ Len(Calls(r)) = 1)
            /\ Ended(r) =>
                /\ Len(Calls(r)) = 2
                /\ Calls(r)[2].op = "products.delete"
                /\ Calls(r)[2].arg = req[r].input
                /\ IF NotFoundReply(Calls(r)[2], "ProductNotFound")
                   THEN /\ req[r].outcome.status = "NotFound"
                        /\ req[r].outcome.exc = "ProductNotFound"
                        /\ req[r].outcome.detail = req[r].input
                   ELSE /\ Calls(r)[2].reply.ok
                        /\ req[r].outcome =
                              [status |-> "OK",
                               body |-> [message |-> "Product deleted successfully"]]

\* Two DELETE requests for one product passed the check; one deleted it and
\* the other found it gone.
C3_Witness ==
    \E r1, r2 \in Reqs :
        /\ req[r1].handler = "delete_product" /\ Ended(r1)
        /\ req[r2].handler = "delete_product" /\ Ended(r2)
        /\ req[r1].input = req[r2].input
        /\ req[r1].outcome.status = "OK"
        /\ req[r2].outcome.status = "NotFound"

-----------------------------------------------------------------------------
(* The two check-then-act guards under concurrent requests *)

\* The step in which products.delete is applied for request r.
DeleteApplied(r) ==
    /\ req[r].pc = "delete"
    /\ req'[r].pc = "done"
    /\ req'[r].calls[Len(req'[r].calls)].reply.ok

\* The step in which request r's in-use check lets the deletion proceed.
DeleteCheckPassed(r) ==
    /\ req[r].pc = "idle"
    /\ req'[r].handler = "delete_product"
    /\ req'[r].pc = "delete"

InUse(product_id) == \E i \in 1..Len(orders) : References(orders[i], product_id)

\* C4 as stated: whenever products.delete(id) is applied for a DELETE request,
\* no order references id at that moment.
C4_NeverDeletedInUse ==
    [][\A r \in Reqs : DeleteApplied(r) => ~InUse(req[r].input)]_vars

\* C4 amended: whenever products.delete(id) is applied for a DELETE request,
\* that request's get_order_by_product_id(id) call reported OrderNotFound, and
\* no order referenced id at the moment of that check.
C4_NotInUseWhenChecked ==
    [][\A r \in Reqs :
            /\ DeleteApplied(r) =>
                    /\ Len(req[r].calls) = 1
                    /\ req[r].calls[1].op = "orders.get_order_by_product_id"
                    /\ req[r].calls[1].arg = req[r].input
                    /\ NotFoundReply(req[r].calls[1], "OrderNotFound")
            /\ DeleteCheckPassed(r) => ~InUse(req'[r].input)]_vars

\* A product was deleted although an order, created between the check and the
\* delete, references it.
C4_Witness ==
    \E r \in Reqs :
        /\ req[r].handler = "delete_product"
        /\ Ended(r)
        /\ req[r].outcome.status = "OK"
        /\ req[r].input \notin DOMAIN catalog
        /\ InUse(req[r].input)

\* The step in which orders.create_order is applied for request r.
CreateApplied(r) ==
    /\ req[r].pc = "create"
    /\ req'[r].pc = "done"

\* The step in which request r's check of one line item passes.
ItemCheckPassed(r) ==
    /\ req[r].pc = "check"
    /\ req'[r].pc \in {"check", "create"}
    /\ req'[r].idx = req[r].idx + 1

\* C5 as stated: whenever orders.create_order is applied for a POST /orders
\* request, every product id of the created order is in the catalog at that
\* moment.
C5_NoDanglingOrderAtCreation ==
    [][\A r \in Reqs :
            CreateApplied(r) =>
                \A i \in 1..Len(orders'[Len(orders')].order_details) :
                    orders'[Len(orders')].order_details[i].product_id \in DOMAIN catalog]_vars

\* C5 amended: whenever orders.create_order is applied for a POST /orders
\* request, every product id of the created order was reported as existing by
\* that request's own products.get call, and was in the catalog at the moment
\* of that call.
C5_ExistedWhenChecked ==
    [][\A r \in Reqs :
            /\ CreateApplied(r) =>
                    LET created == orders'[Len(orders')].order_details
                    IN  /\ Len(req[r].calls) = Len(created)
                        /\ \A i \in 1..Len(created) :
                                /\ req[r].calls[i].op = "products.get"
                                /\ req[r].calls[i].arg = created[i].product_id
                                /\ req[r].calls[i].reply.ok
            /\ ItemCheckPassed(r) =>
                    req[r].order_data.order_details[req[r].idx].product_id
                        \in DOMAIN catalog]_vars

\* An order was created for a product that was deleted between the check and
\* the creation.
C5_Witness ==
    \E r \in Reqs :
        /\ req[r].handler = "create_order"
        /\ Ended(r)
        /\ req[r].outcome.status = "OK"
        /\ \E i \in 1..Len(orders[req[r].outcome.body.id].order_details) :
                orders[req[r].outcome.body.id].order_details[i].product_id
                    \notin DOMAIN catalog

-----------------------------------------------------------------------------
(* Enrichment *)

Reads(r) == req[r].handler \in {"get_order", "list_orders"}

Succeeded(r) == Ended(r) /\ req[r].outcome.status = "OK"

\* The orders of a successful response of GET /orders/<id> or GET /orders.
ResponseOrders(r) ==
    IF req[r].handler = "get_order" THEN <<req[r].outcome.body>>
    ELSE req[r].outcome.body.orders

\* The calls that precede the products.get calls of the enrichment loop.
LeadingCalls(r) == IF req[r].handler = "get_order" THEN 1 ELSE 2

\* C6: in every successful response of GET /orders/<id> and GET /orders, the
\* k-th line item in response order carries the product record that the
\* request's k-th products.get call returned for its product_id, and the image
\* "{image_root}/{product_id}.jpg".
C6_EnrichmentComplete ==
    \A r \in Reqs :
        (Reads(r) /\ Succeeded(r)) =>
            LET positions == Positions(ResponseOrders(r), 1)
            IN  /\ Len(Calls(r)) = LeadingCalls(r) + Len(positions)
                /\ \A k \in 1..Len(positions) :
                        LET item == ResponseOrders(r)[positions[k][1]]
                                        .order_details[positions[k][2]]
                            call == Calls(r)[LeadingCalls(r) + k]
                        IN  /\ call.op = "products.get"
                            /\ call.arg = item.product_id
                            /\ call.reply.ok
                            /\ item.product = call.reply.val
                            /\ item.product.id = item.product_id
                            /\ item.image = image_root \o "/" \o item.product_id \o ".jpg"

\* Both endpoints answered with orders of at least one line item each.
C6_Witness ==
    \E r1, r2 \in Reqs :
        /\ req[r1].handler = "get_order" /\ Succeeded(r1)
        /\ Len(req[r1].outcome.body.order_details) >= 1
        /\ req[r2].handler = "list_orders" /\ Succeeded(r2)
        /\ Len(Positions(req[r2].outcome.body.orders, 1)) >= 1

\* C7: a GET /orders/<id> or GET /orders request in which products.get
\* reported ProductNotFound for a line item has ended with a failure outcome
\* that carries no orders.
C7_NoPartialEnrichment ==
    \A r \in Reqs :
        Reads(r) =>
            \A i \in 1..Len(Calls(r)) :
                (Calls(r)[i].op = "products.get"
                    /\ NotFoundReply(Calls(r)[i], "ProductNotFound")) =>
                    /\ Ended(r)
                    /\ i = Len(Calls(r))
                    /\ req[r].outcome.status # "OK"
                    /\ "body" \notin DOMAIN req[r].outcome

\* GET /orders/<id> met an order whose product has been deleted.
C7_Witness ==
    \E r \in Reqs :
        /\ req[r].handler = "get_order"
        /\ Ended(r)
        /\ Len(Calls(r)) >= 2
        /\ NotFoundReply(Calls(r)[Len(Calls(r))], "ProductNotFound")

\* C8: a request that ended because its last backend call reported
\* ProductNotFound or OrderNotFound has the outcome NotFound.
C8_NotFoundPassThrough ==
    \A r \in Reqs :
        (/\ Ended(r)
         /\ Len(Calls(r)) > 0
         /\ ~Calls(r)[Len(Calls(r))].reply.ok
         /\ Calls(r)[Len(Calls(r))].reply.type \in {"ProductNotFound", "OrderNotFound"}) =>
            req[r].outcome.status = "NotFound"

-----------------------------------------------------------------------------
(* Pagination *)

CountCalls(r, op) == Cardinality({i \in 1..Len(Calls(r)) : Calls(r)[i].op = op})

\* C9: a successful GET /orders made exactly one list_orders call and one
\* get_total_orders call; its total is the value the get_total_orders call
\* returned, and its orders are the orders the list_orders call returned, each
\* line item with a product and an image added.
C9_TotalIndependence ==
    \A r \in Reqs :
        (req[r].handler = "list_orders" /\ Succeeded(r)) =>
            LET page == Calls(r)[1].reply.val
                body == req[r].outcome.body
            IN  /\ CountCalls(r, "orders.list_orders") = 1
                /\ CountCalls(r, "orders.get_total_orders") = 1
                /\ Calls(r)[1].op = "orders.list_orders"
                /\ Calls(r)[2].op = "orders.get_total_orders"
                /\ body.total = Calls(r)[2].reply.val
                /\ Len(body.orders) = Len(page)
                /\ \A o \in 1..Len(page) :
                        /\ body.orders[o].id = page[o].id
                        /\ Len(body.orders[o].order_details) = Len(page[o].order_details)
                        /\ \A i \in 1..Len(page[o].order_details) :
                                LET item == body.orders[o].order_details[i]
                                IN  /\ DOMAIN item =
                                        DOMAIN page[o].order_details[i] \cup {"product", "image"}
                                    /\ \A f \in DOMAIN page[o].order_details[i] :
                                            item[f] = page[o].order_details[i][f]

\* A page of one order out of two: the total is not the length of the page.
C9_Witness ==
    \E r \in Reqs :
        /\ req[r].handler = "list_orders" /\ Succeeded(r)
        /\ Len(req[r].outcome.body.orders) = 1
        /\ req[r].outcome.body.total = 2

SamePage(a, b) ==
    \/ a = b
    \/ {a, b} = {Absent, Given("1")}

SamePerPage(a, b) ==
    \/ a = b
    \/ {a, b} = {Absent, Given("10")}

\* C10: two GET /orders requests whose query strings differ only in leaving
\* out page where the other gives page=1, or per_page where the other gives
\* per_page=10, make the same list_orders call, and yield the same outcome
\* when their backend calls are answered alike; with neither parameter the
\* call is list_orders(page=1, per_page=10).
C10_PaginationDefaults ==
    \A r1, r2 \in Reqs :
        (/\ req[r1].handler = "list_orders"
         /\ req[r2].handler = "list_orders"
         /\ SamePage(req[r1].input.page, req[r2].input.page)
         /\ SamePerPage(req[r1].input.per_page, req[r2].input.per_page)) =>
            /\ (Calls(r1) = <<>>) <=> (Calls(r2) = <<>>)
            /\ Calls(r1) # <<>> =>
                    /\ Calls(r1)[1].op = "orders.list_orders"
                    /\ Calls(r1)[1].arg = Calls(r2)[1].arg
                    /\ req[r1].input.page = Absent => Calls(r1)[1].arg.page = 1
                    /\ req[r1].input.per_page = Absent => Calls(r1)[1].arg.per_page = 10
            /\ (Ended(r1) /\ Ended(r2) /\ Calls(r1) = Calls(r2)) =>
                    req[r1].outcome = req[r2].outcome

\* GET /orders and GET /orders?page=1&per_page=10 both answered with the same
\* non-empty page.
C10_Witness ==
    \E r1, r2 \in Reqs :
        /\ req[r1].handler = "list_orders" /\ Succeeded(r1)
        /\ req[r2].handler = "list_orders" /\ Succeeded(r2)
        /\ req[r1].input = [page |-> Absent, per_page |-> Absent]
        /\ req[r2].input = [page |-> Given("1"), per_page |-> Given("10")]
        /\ Len(req[r1].outcome.body.orders) >= 1
        /\ req[r1].outcome = req[r2].outcome

-----------------------------------------------------------------------------
(* Products *)

\* The step in which request r, a POST /products, ends with success.
ProductPosted(r) ==
    /\ req[r].pc = "idle"
    /\ req'[r].handler = "create_product"
    /\ req'[r].outcome.status = "OK"

\* The step in which request r, a GET /products/<id>, ends with success.
ProductRead(r) ==
    /\ req[r].pc = "idle"
    /\ req'[r].handler = "get_product"
    /\ req'[r].outcome.status = "OK"

ProductFields == {"id", "title", "passenger_capacity", "maximum_speed", "in_stock"}

\* C11: a successful POST /products answers with the id P of the posted
\* product and leaves under P a record with the posted field values; a
\* successful GET /products/P answers with the field values of the record that
\* is under P at that moment.  So a GET that follows the POST with no catalog
\* write to P in between returns the posted values.
C11_ProductRoundTrip ==
    [][\A r \in Reqs :
            /\ ProductPosted(r) =>
                    LET posted == req'[r].input.data
                    IN  /\ req'[r].outcome.body = [id |-> posted.id]
                        /\ posted.id \in DOMAIN catalog'
                        /\ \A f \in ProductFields : catalog'[posted.id][f] = posted[f]
            /\ ProductRead(r) =>
                    LET P == req'[r].input
                    IN  /\ P \in DOMAIN catalog
                        /\ DOMAIN req'[r].outcome.body = ProductFields
                        /\ \A f \in ProductFields :
                                req'[r].outcome.body[f] = catalog[P][f]]_vars

\* One worker posted a product with title t2 and the other then read the same
\* values back.
C11_Witness ==
    \E r1, r2 \in Reqs :
        /\ req[r1].handler = "create_product" /\ req[r1].pc = "done"
        /\ req[r1].outcome.status = "OK"
        /\ req[r1].input.data.title = "t2"
        /\ req[r2].handler = "get_product" /\ req[r2].pc = "done"
        /\ req[r2].outcome.status = "OK"
        /\ req[r2].outcome.body = req[r1].input.data
        /\ catalog[req[r2].input] = req[r1].input.data

-----------------------------------------------------------------------------
(* Validation *)

Posts(r) == req[r].handler \in {"create_product", "create_order"}

\* C12: a POST /products or POST /orders request whose body is not JSON or
\* violates the schema has ended with BadRequest and has made no backend call.
C12_ValidationStaysInside ==
    \A r \in Reqs :
        (Posts(r) /\ req[r].input.kind \in {"malformed", "invalid"}) =>
            /\ Ended(r)
            /\ req[r].outcome.status = "BadRequest"
            /\ req[r].outcome.exc =
                    (IF req[r].input.kind = "malformed" THEN "BadRequest"
                     ELSE "ValidationError")
            /\ Calls(r) = <<>>

\* A POST /products with text that is not JSON and a POST /orders that
\* violates the schema were both refused, and neither backend holds anything.
C12_Witness ==
    \E r1, r2 \in Reqs :
        /\ req[r1].handler = "create_product" /\ req[r1].input.kind = "malformed"
        /\ req[r2].handler = "create_order" /\ req[r2].input.kind = "invalid"
        /\ Ended(r1) /\ Ended(r2)
        /\ catalog = <<>> /\ orders = <<>>

-----------------------------------------------------------------------------
(* The product check of POST /orders, call by call *)

\* The products.get calls request r has made so far.
Gets(r) == {i \in 1..Len(Calls(r)) : Calls(r)[i].op = "products.get"}

\* C13: the products.get calls of a POST /orders request are its first calls,
\* the i-th of them for the i-th line item of the request; a call that
\* reported ProductNotFound is the request's last call, every call before it
\* resolved, and the outcome names that line item's product id.
C13_FirstFailureAborts ==
    \A r \in Reqs :
        (req[r].handler = "create_order" /\ req[r].input.kind = "valid") =>
            LET details == req[r].input.data.order_details
            IN  /\ Cardinality(Gets(r)) <= Len(details)
                /\ \A i \in Gets(r) :
                        /\ \A j \in 1..i : j \in Gets(r)
                        /\ Calls(r)[i].arg = details[i].product_id
                        /\ ~Calls(r)[i].reply.ok =>
                                /\ i = Len(Calls(r))
                                /\ \A j \in 1..(i - 1) : Calls(r)[j].reply.ok
                                /\ Ended(r)
                                /\ req[r].outcome.exc = "ProductNotFound"
                                /\ req[r].outcome.detail = details[i].product_id

\* An order for two different products, neither in the catalog, was refused
\* after one call, naming the first; and one whose first product resolved was
\* refused naming the second.
C13_Witness ==
    \E r1, r2 \in Reqs :
        /\ req[r1].handler = "create_order" /\ Ended(r1)
        /\ req[r1].input.kind = "valid"
        /\ Len(req[r1].input.data.order_details) = 2
        /\ req[r1].input.data.order_details[1].product_id
                # req[r1].input.data.order_details[2].product_id
        /\ Len(Calls(r1)) = 1
        /\ req[r1].outcome.detail = req[r1].input.data.order_details[1].product_id
        /\ req[r1].input.data.order_details[2].product_id \notin DOMAIN catalog
        /\ req[r2].handler = "create_order" /\ Ended(r2)
        /\ Len(Calls(r2)) = 2
        /\ ~Calls(r2)[2].reply.ok
        /\ req[r2].outcome.detail = req[r2].input.data.order_details[2].product_id
        /\ req[r2].outcome.detail # req[r2].input.data.order_details[1].product_id

-----------------------------------------------------------------------------
(* The shape of DELETE /products/<id> *)

\* C14: a DELETE request calls get_order_by_product_id exactly once, as its
\* first call, and products.delete at most once, after that call reported
\* OrderNotFound and nowhere else; while it has not ended its delete call can
\* be made; once it has ended it is in exactly one of
\* Refuse (Conflict, no delete call), Deleted (success, the delete call
\* acknowledged) and NotFound (the delete call reported ProductNotFound).
C14_DeletionStateMachine ==
    \A r \in Reqs :
        req[r].handler = "delete_product" =>
            LET deletes == {i \in 1..Len(Calls(r)) : Calls(r)[i].op = "products.delete"}
            IN  /\ CountCalls(r, "orders.get_order_by_product_id") = 1
                /\ Calls(r)[1].op = "orders.get_order_by_product_id"
                /\ Cardinality(deletes) <= 1
                /\ Len(Calls(r)) = 1 + Cardinality(deletes)
                /\ deletes # {} => NotFoundReply(Calls(r)[1], "OrderNotFound")
                /\ req[r].pc \in {"delete", "done"}
                /\ req[r].pc = "delete" =>
                        /\ deletes = {}
                        /\ NotFoundReply(Calls(r)[1], "OrderNotFound")
                        /\ ENABLED delete_product_delete(r)
                /\ Ended(r) =>
                        /\ req[r].outcome.status \in {"Conflict", "OK", "NotFound"}
                        /\ req[r].outcome.status = "Conflict" <=> deletes = {}
                        /\ req[r].outcome.status = "OK" <=>
                                (deletes # {} /\ Calls(r)[2].reply.ok)
                        /\ req[r].outcome.status = "NotFound" <=>
                                (deletes # {} /\ ~Calls(r)[2].reply.ok)

\* One DELETE was refused while another, for a product that is not there,
\* ended NotFound.
C14_Witness ==
    \E r1, r2 \in Reqs :
        /\ req[r1].handler = "delete_product" /\ Ended(r1)
        /\ req[r1].outcome.status = "Conflict"
        /\ req[r2].handler = "delete_product" /\ Ended(r2)
        /\ req[r2].outcome.status = "NotFound"

-----------------------------------------------------------------------------
(* Enrichment keeps what the orders service returned *)

\* The line items of a sequence of orders, one order after the other.
RECURSIVE ItemsInOrder(_)
ItemsInOrder(os) ==
    IF Len(os) = 0 THEN <<>>
    ELSE Head(os).order_details \o ItemsInOrder(Tail(os))

\* The orders that the orders service returned to request r.
Fetched(r) ==
    IF req[r].handler = "get_order" THEN <<Calls(r)[1].reply.val>>
    ELSE Calls(r)[1].reply.val

\* C15: in GET /orders/<id> and GET /orders the k-th products.get call is for
\* the k-th line item of what the orders service returned, orders and line
\* items taken in sequence; a successful response holds the same orders and
\* line items in the same sequence, with product_id, price and quantity
\* unchanged.
C15_EnrichmentPreservesOrder ==
    \A r \in Reqs :
        (Reads(r) /\ Len(Calls(r)) > 0 /\ Calls(r)[1].reply.ok) =>
            LET items == ItemsInOrder(Fetched(r))
                lead == LeadingCalls(r)
            IN  /\ Len(Calls(r)) <= lead + Len(items)
                /\ \A k \in 1..Len(items) :
                        lead + k <= Len(Calls(r)) =>
                            /\ Calls(r)[lead + k].op = "products.get"
                            /\ Calls(r)[lead + k].arg = items[k].product_id
                /\ Succeeded(r) =>
                        LET out == ResponseOrders(r)
                        IN  /\ Len(out) = Len(Fetched(r))
                            /\ Len(Calls(r)) = lead + Len(items)
                            /\ \A o \in 1..Len(out) :
                                    /\ out[o].id = Fetched(r)[o].id
                                    /\ Len(out[o].order_details)
                                            = Len(Fetched(r)[o].order_details)
                                    /\ \A i \in 1..Len(out[o].order_details) :
                                            \A f \in {"product_id", "price", "quantity"} :
                                                out[o].order_details[i][f]
                                                    = Fetched(r)[o].order_details[i][f]

\* GET /orders answered with an order for two different products.
C15_Witness ==
    \E r \in Reqs :
        /\ req[r].handler = "list_orders" /\ Succeeded(r)
        /\ \E o \in 1..Len(req[r].outcome.body.orders) :
                LET details == req[r].outcome.body.orders[o].order_details
                IN  /\ Len(details) = 2
                    /\ details[1].product_id # details[2].product_id

-----------------------------------------------------------------------------
(* Who writes *)

ReadHandlers == {"get_product", "get_order", "list_orders"}

ReadOps ==
    {"products.get", "orders.get_order", "orders.list_orders", "orders.get_total_orders"}

\* Worker r takes this step.
Stepped(r) ==
    \/ req'[r].pc # req[r].pc
    \/ Len(req'[r].calls) # Len(req[r].calls)

\* Worker r makes the call op in this step.
StepCalls(r, op) ==
    /\ Len(req'[r].calls) = Len(req[r].calls) + 1
    /\ req'[r].calls[Len(req'[r].calls)].op = op

\* C16: GET /products/<id>, GET /orders/<id> and GET /orders make only read
\* calls and their steps change neither backend; the orders change only by a
\* create_order call of POST /orders that appends one order and leaves the
\* existing ones as they were; the products change only by a create call of
\* POST /products or a delete call of DELETE /products/<id>.
C16_ReadsNeverMutate ==
    [][/\ \A r \in Reqs :
            req'[r].handler \in ReadHandlers =>
                /\ \A i \in 1..Len(req'[r].calls) : req'[r].calls[i].op \in ReadOps
                /\ Stepped(r) => (catalog' = catalog /\ orders' = orders)
       /\ orders' # orders =>
            /\ \E r \in Reqs :
                    /\ req'[r].handler = "create_order"
                    /\ StepCalls(r, "orders.create_order")
            /\ Len(orders') = Len(orders) + 1
            /\ SubSeq(orders', 1, Len(orders)) = orders
       /\ catalog' # catalog =>
            \E r \in Reqs :
                \/ /\ req'[r].handler = "create_product"
                   /\ StepCalls(r, "products.create")
                \/ /\ req'[r].handler = "delete_product"
                   /\ StepCalls(r, "products.delete")]_vars

\* GET /orders and GET /products/<id> have both answered from backends that
\* hold an order and a product.
C16_Witness ==
    \E r1, r2 \in Reqs :
        /\ req[r1].handler = "list_orders" /\ Succeeded(r1)
        /\ Len(Positions(req[r1].outcome.body.orders, 1)) >= 1
        /\ req[r2].handler = "get_product" /\ Succeeded(r2)

-----------------------------------------------------------------------------
(* Requests do not see each other *)

\* Two workers serve the same request: the same handler with the same input.
SameRequest(r1, r2) ==
    /\ req[r1].handler # "idle"
    /\ req[r1].handler = req[r2].handler
    /\ req[r1].input = req[r2].input

\* The calls of r2 and their replies are the first calls and replies of r1.
PrefixOf(r2, r1) ==
    /\ Len(Calls(r2)) <= Len(Calls(r1))
    /\ SubSeq(Calls(r1), 1, Len(Calls(r2))) = Calls(r2)

\* C17: two requests with the same input whose backend calls were answered
\* alike are in the same position with the same locals and the same outcome,
\* whatever else the gateway served meanwhile; and a request that has ended
\* after some calls and replies has not a twin that went on after the same
\* calls and replies.
C17_RequestIsolation ==
    \A r1, r2 \in Reqs :
        (r1 # r2 /\ SameRequest(r1, r2) /\ PrefixOf(r2, r1)) =>
            /\ Calls(r1) = Calls(r2) => req[r1] = req[r2]
            /\ Ended(r2) => Calls(r1) = Calls(r2)

\* Two GET /orders/<id> for the same order ended alike after the catalog was
\* written once more between them.
C17_Witness ==
    \E r1, r2 \in Reqs :
        /\ r1 # r2
        /\ SameRequest(r1, r2)
        /\ req[r1].handler = "get_order"
        /\ Succeeded(r1) /\ Succeeded(r2)
        /\ Len(Calls(r1)) >= 2
        /\ req[r1].outcome = req[r2].outcome

-----------------------------------------------------------------------------
(* An order without line items *)

\* A POST /orders request whose body is valid and has no line item.
EmptyOrder(r) ==
    /\ req[r].handler = "create_order"
    /\ req[r].input.kind = "valid"
    /\ req[r].input.data.order_details = <<>>

\* C18: a POST /orders request with an empty order_details makes no
\* products.get call; until it ends it has made no call at all and stands
\* before orders.create_order, which it can call; once ended it has made
\* exactly one call, orders.create_order with an empty list of line items,
\* and its response is OK with the id that call returned, under which the
\* orders backend holds an order without line items.
C18_EmptyOrderPermitted ==
    \A r \in Reqs :
        EmptyOrder(r) =>
            /\ ~Made(r, "products.get")
            /\ ~Ended(r) =>
                /\ req[r].pc = "create"
                /\ Calls(r) = <<>>
                /\ Len(orders) < MaxOrders => ENABLED create_order_create(r)
            /\ Ended(r) =>
                /\ Len(Calls(r)) = 1
                /\ Calls(r)[1].op = "orders.create_order"
                /\ Calls(r)[1].arg = <<>>
                /\ Calls(r)[1].reply.ok
                /\ req[r].outcome = Response([id |-> Calls(r)[1].reply.val.id])
                /\ Calls(r)[1].reply.val.id \in 1..Len(orders)
                /\ orders[Calls(r)[1].reply.val.id].order_details = <<>>

\* An order without line items has been created and its id returned.
C18_Witness ==
    \E r \in Reqs :
        /\ EmptyOrder(r)
        /\ Succeeded(r)
        /\ Made(r, "orders.create_order")
        /\ \E i \in 1..Len(orders) :
                /\ orders[i].order_details = <<>>
                /\ req[r].outcome.body.id = orders[i].id

-----------------------------------------------------------------------------
(* Query values of GET /orders that are not integers *)

\* A GET /orders request whose page or per_page value int() rejects.
CoercionFails(r) ==
    /\ req[r].handler = "list_orders"
    /\ \/ ~arg_int(req[r].input.page, DefaultPage).ok
       \/ ~arg_int(req[r].input.per_page, DefaultPerPage).ok

\* C19: a GET /orders request whose page or per_page query value is not an
\* integer has ended with BadRequest.
C19_CoercionBadRequest ==
    \A r \in Reqs :
        CoercionFails(r) =>
            /\ Ended(r)
            /\ req[r].outcome.status = "BadRequest"

====
